---------------------------- MODULE Spec2Model ----------------------------
(***************************************************************************)
(* Countdown clock (components/Clock.tsx) and its host (App.tsx).          *)
(* The image request of the host (services/geminiService.ts) is modelled   *)
(* on its own, from the settling of the API call to the promise's outcome. *)
(*                                                                         *)
(* Instants and durations are integers in milliseconds.  A year of         *)
(* milliseconds does not fit a 32 bit integer, so an instant is kept in    *)
(* two limbs, whole days and milliseconds of the day:                      *)
(*    value = d * MS_PER_DAY + ms,   0 <= ms < MS_PER_DAY.                 *)
(*                                                                         *)
(* Scheduling (React, browser event loop):                                 *)
(*  - the state updates of one handler or callback are applied together    *)
(*    and followed by one render, so a step is a handler with its render;  *)
(*  - useEffect runs after the render is painted, as a step of its own     *)
(*    (FlushEffects), and before anything else runs;                       *)
(*  - a timer fires when it is due, timers due at the same instant in any  *)
(*    order; renders and effects take no time;                             *)
(*  - Date.now() (wall) may be set independently of the timer clock (clk). *)
(***************************************************************************)
EXTENDS Integers, Sequences, FiniteSets

VARIABLES
    \* ---- wall clock and timer clock
    wall,          \* Date.now(): the wall clock, an instant
    clk,           \* the event loop's monotonic clock (ms), drives timers
    jumps,         \* wall clock adjustments made so far
    \* ---- the Clock component
    clock,         \* hook state, props and timers of the Clock instance
    fired,         \* the timer callback that ran last
    tick,          \* when onTick was last invoked, and the gap before it
    \* ---- the App component
    app,           \* App state (useState cells), timers, requests in flight
    clicks,        \* user actions made so far
    \* ---- pure function harness
    fn             \* inputs and outputs of the pure functions

vars == <<wall, clk, jumps, clock, fired, tick, app, clicks, fn>>

-----------------------------------------------------------------------------
(* Program constants *)

MS_PER_SECOND == 1000
MS_PER_MINUTE == 60000
MS_PER_HOUR == 3600000
MS_PER_DAY == 86400000
TICK_PERIOD == 1000
\* mutant: the pulse outlasts the tick period
PULSE_OFF_DELAY_slow == TICK_PERIOD + 200
PULSE_OFF_DELAY == 100
TICK_ACTIVE_DELAY == 50

-----------------------------------------------------------------------------
(* Two-limb integers *)

Instant(d, ms) == [d |-> d, ms |-> ms]

\* carry the millisecond limb into the day limb
Norm(d, ms) ==
    IF ms >= 0
    THEN [d |-> d + (ms \div MS_PER_DAY), ms |-> ms % MS_PER_DAY]
    ELSE [d |-> d - ((-ms + MS_PER_DAY - 1) \div MS_PER_DAY),
          ms |-> (MS_PER_DAY - ((-ms) % MS_PER_DAY)) % MS_PER_DAY]

\* a - b
Minus(a, b) == Norm(a.d - b.d, a.ms - b.ms)

\* a + k, k a (possibly negative) number of milliseconds
PlusMs(a, k) == Norm(a.d, a.ms + k)

NonPositive(x) == x.d < 0 \/ (x.d = 0 /\ x.ms = 0)

LessEq(a, b) == a.d < b.d \/ (a.d = b.d /\ a.ms <= b.ms)

\* floor(x / k) for x >= 0 and k a divisor of MS_PER_DAY
FloorDiv(x, k) == x.d * (MS_PER_DAY \div k) + (x.ms \div k)

-----------------------------------------------------------------------------
(* Clock.tsx: calculateTimeLeft *)

ZeroTime == [days |-> 0, hours |-> 0, minutes |-> 0, seconds |-> 0]

\* mutant: the clamp of a non-positive difference is dropped
calculateTimeLeft_noClamp(targetDate, now) ==
    LET difference == Minus(targetDate, now) IN
    [days    |-> FloorDiv(difference, MS_PER_DAY),
     hours   |-> FloorDiv(difference, MS_PER_HOUR) % 24,
     minutes |-> FloorDiv(difference, MS_PER_MINUTE) % 60,
     seconds |-> FloorDiv(difference, MS_PER_SECOND) % 60]

\* mutant: minutes are taken from the seconds
calculateTimeLeft_badMinutes(targetDate, now) ==
    LET difference == Minus(targetDate, now) IN
    IF NonPositive(difference) THEN ZeroTime
    ELSE [days    |-> FloorDiv(difference, MS_PER_DAY),
          hours   |-> FloorDiv(difference, MS_PER_HOUR) % 24,
          minutes |-> FloorDiv(difference, MS_PER_SECOND) % 60,
          seconds |-> FloorDiv(difference, MS_PER_SECOND) % 60]

\* Math.floor((difference / k) % m) is floor(difference / k) % m for a
\* difference > 0
calculateTimeLeft(targetDate, now) ==
    LET difference == Minus(targetDate, now) IN
    IF NonPositive(difference) THEN ZeroTime
    ELSE [days    |-> FloorDiv(difference, MS_PER_DAY),
          hours   |-> FloorDiv(difference, MS_PER_HOUR) % 24,
          minutes |-> FloorDiv(difference, MS_PER_MINUTE) % 60,
          seconds |-> FloorDiv(difference, MS_PER_SECOND) % 60]

-----------------------------------------------------------------------------
(* Clock.tsx: renderGroup and SevenSegmentDigit *)

\* a JavaScript number as far as the digit display meets them: an integer,
\* NaN, or a non-integer (n + 1/2)
JsInt(n) == [kind |-> "int", n |-> n]
NaN == [kind |-> "nan", n |-> 0]
JsHalf(n) == [kind |-> "frac", n |-> n]

DigitChars == <<"0", "1", "2", "3", "4", "5", "6", "7", "8", "9">>

RECURSIVE Digits(_)
Digits(n) == IF n < 10 THEN <<DigitChars[n + 1]>>
             ELSE Digits(n \div 10) \o <<DigitChars[(n % 10) + 1]>>

\* Number.prototype.toString of an integer
NumberToString(n) == IF n < 0 THEN <<"-">> \o Digits(-n) ELSE Digits(n)

\* String.prototype.padStart(len, "0")
RECURSIVE PadStart(_, _)
PadStart(s, len) == IF Len(s) >= len THEN s ELSE PadStart(<<"0">> \o s, len)

\* parseInt of one character
ParseInt(c) ==
    IF \E k \in 0..9 : DigitChars[k + 1] = c
    THEN JsInt(CHOOSE k \in 0..9 : DigitChars[k + 1] = c)
    ELSE NaN

renderGroup(value) ==
    LET s == PadStart(NumberToString(value), 2) IN
    [d1 |-> ParseInt(s[1]), d2 |-> ParseInt(s[2])]

DIGIT_SEGMENTS ==
    [k \in 0..9 |->
        CASE k = 0 -> <<"a", "b", "c", "d", "e", "f">>
          [] k = 1 -> <<"b", "c">>
          [] k = 2 -> <<"a", "b", "d", "e", "g">>
          [] k = 3 -> <<"a", "b", "c", "d", "g">>
          [] k = 4 -> <<"b", "c", "f", "g">>
          [] k = 5 -> <<"a", "c", "d", "f", "g">>
          [] k = 6 -> <<"a", "c", "d", "e", "f", "g">>
          [] k = 7 -> <<"a", "b", "c">>
          [] k = 8 -> <<"a", "b", "c", "d", "e", "f", "g">>
          [] k = 9 -> <<"a", "b", "c", "d", "f", "g">>]

SEGMENT_KEYS == {"a", "b", "c", "d", "e", "f", "g"}

\* mutant: the lookup is taken modulo 10 (no fallback for other values)
activeSegments_wrap(value) ==
    IF value.kind = "int" THEN DIGIT_SEGMENTS[value.n % 10] ELSE <<>>

\* DIGIT_SEGMENTS[value] || []
activeSegments(value) ==
    IF value.kind = "int" /\ value.n \in DOMAIN DIGIT_SEGMENTS
    THEN DIGIT_SEGMENTS[value.n]
    ELSE <<>>

\* the four digit pairs the Clock renders
RenderGroups(timeLeft) ==
    [days    |-> renderGroup(timeLeft.days),
     hours   |-> renderGroup(timeLeft.hours),
     minutes |-> renderGroup(timeLeft.minutes),
     seconds |-> renderGroup(timeLeft.seconds)]

-----------------------------------------------------------------------------
(* Bounds of the model *)

MaxTime == 2100      \* the timer clock stops here (ms)
MaxClicks == 4       \* user actions on the App
MaxParentSteps == 2  \* renders, unmounts and mounts by a bare Clock's parent
MaxJumps == 1        \* wall clock adjustments

Step == 500                       \* time may also pass between timers
JumpSizes == {-5000, 5000}        \* wall clock adjustments (ms)
Themes == {"24", "ELF"}
Fields == {"days", "hours", "minutes", "seconds"}

-----------------------------------------------------------------------------
(* Clock.tsx: the Clock component.                                         *)
(*                                                                         *)
(* clock.timeLeft, clock.pulse   the two useState cells                    *)
(* clock.from                    what timeLeft was computed from           *)
(* clock.targetDate, dateId, onTick, theme, variant   props of last render *)
(* clock.effectPending           the render scheduled the effect, which    *)
(*                               runs after the paint                      *)
(* clock.timer                   id held by the cleanup closure            *)
(* clock.intervals, timeouts     timers created by the component's cycles  *)
(* clock.digits                  the digit pairs painted by the last render*)

NoCallback == [fn |-> "none", id |-> 0]
NoFrom == [set |-> FALSE, target |-> Instant(0, 0)]
NoTimer == -1

Unmounted ==
    [mounted |-> FALSE, variant |-> "none",
     timeLeft |-> ZeroTime, from |-> NoFrom, pulse |-> FALSE,
     targetDate |-> Instant(0, 0), dateId |-> 0, onTick |-> NoCallback,
     theme |-> "24", effectPending |-> FALSE, timer |-> NoTimer,
     intervals |-> {}, timeouts |-> {},
     digits |-> RenderGroups(ZeroTime)]

\* the render output of the current state
Paint(c) == [c EXCEPT !.digits = RenderGroups(c.timeLeft)]

\* first render of a new instance: useState initial values, effect scheduled.
\* Timers of earlier instances are still in the event loop.
MountClock(c, variant, targetDate, dateId, onTick, theme) ==
    [c EXCEPT !.mounted = TRUE, !.variant = variant,
              !.timeLeft = ZeroTime, !.from = NoFrom, !.pulse = FALSE,
              !.targetDate = targetDate, !.dateId = dateId,
              !.onTick = onTick, !.theme = theme,
              !.effectPending = TRUE, !.timer = NoTimer]

\* re-render with new props: the effect is scheduled when a dependency
\* ([targetDate, onTick], compared by identity) changed
RerenderClock(c, targetDate, dateId, onTick, theme) ==
    [c EXCEPT !.targetDate = targetDate, !.dateId = dateId,
              !.onTick = onTick, !.theme = theme,
              !.effectPending =
                  c.effectPending \/ dateId # c.dateId \/ onTick # c.onTick]

\* mutant: the cleanup does not clear the interval
Cleanup_noClear(c) ==
    [c EXCEPT !.timer = NoTimer,
              !.timeouts = {[t EXCEPT !.orphan = TRUE] : t \in c.timeouts}]

\* return () => clearInterval(timer): ends the cycle.  The pulse-off
\* timeouts the cycle scheduled stay in the event loop.
Cleanup(c) ==
    [c EXCEPT !.timer = NoTimer,
              !.intervals = {iv \in c.intervals : iv.id # c.timer},
              !.timeouts = {[t EXCEPT !.orphan = TRUE] : t \in c.timeouts}]

\* the instance is removed: cleanup, and what is left belongs to no instance
UnmountClock(c) ==
    LET u == Cleanup(c) IN
    [u EXCEPT !.mounted = FALSE, !.variant = "none", !.effectPending = FALSE,
              !.timeLeft = ZeroTime, !.from = NoFrom, !.pulse = FALSE,
              !.intervals = {[iv EXCEPT !.gone = TRUE] : iv \in u.intervals},
              !.timeouts = {[t EXCEPT !.gone = TRUE] : t \in u.timeouts}]

FreshTimerId(c) ==
    CHOOSE n \in 0..Cardinality(c.intervals) :
        /\ \A iv \in c.intervals : iv.id # n
        /\ \A m \in 0..Cardinality(c.intervals) :
               (\A iv \in c.intervals : iv.id # m) => n <= m

\* the effect body: initial calculation, then setInterval
EffectBody(c, now, k) ==
    LET id == FreshTimerId(c) IN
    [c EXCEPT !.effectPending = FALSE,
              !.timeLeft = calculateTimeLeft(c.targetDate, now),
              !.from = [set |-> TRUE, target |-> c.targetDate],
              !.timer = id,
              !.intervals = c.intervals \cup
                  {[id |-> id, due |-> k + TICK_PERIOD, gone |-> FALSE,
                    targetDate |-> c.targetDate, onTick |-> c.onTick]}]

\* mutant: the tick counts the previous value down by one second
TickTimeLeft_countDown(prev, targetDate, now) ==
    LET total == ((prev.hours * 60 + prev.minutes) * 60 + prev.seconds) - 1
    IN  IF prev = ZeroTime THEN ZeroTime
        ELSE IF total < 0
        THEN [days |-> prev.days - 1, hours |-> 23, minutes |-> 59,
              seconds |-> 59]
        ELSE [days |-> prev.days, hours |-> total \div 3600,
              minutes |-> (total \div 60) % 60, seconds |-> total % 60]

\* setTimeLeft(calculateTimeLeft()) in the interval callback: the previous
\* value is not read
TickTimeLeft(prev, targetDate, now) == calculateTimeLeft(targetDate, now)

\* mutant: the timer fires once (setTimeout in place of setInterval)
Rearm_once(intervals, iv, k) == intervals \ {iv}

\* setInterval(..., 1000): the timer that fired is due again a period later
Rearm(intervals, iv, k) ==
    (intervals \ {iv}) \cup {[iv EXCEPT !.due = k + TICK_PERIOD]}

\* the scheduled effect runs: cleanup of the previous run, then the body
RunEffect(c, now, k) ==
    IF c.timer # NoTimer THEN EffectBody(Cleanup(c), now, k)
    ELSE EffectBody(c, now, k)

-----------------------------------------------------------------------------
(* App.tsx: the App component.                                             *)
(*                                                                         *)
(* app.appState .. app.targetChristmas   the useState cells                *)
(* app.dateId        identity of the Date object held in targetChristmas   *)
(* app.fnId          identity of the handleTick made by the last render    *)
(* app.effectPending the mount effect has not run yet                      *)
(* app.timeouts      handleTick's timeouts (due times)                     *)
(* app.readers       FileReaders at work                                   *)
(* app.requests      generateCharacterImage calls in flight                *)
(* app.xmas, yearDays  the calendar: 25 December 00:00 of the current      *)
(*                   year, and the days until that of the next year        *)

Images == {"imgA", "imgB"}
NoImage == "null"
NoResult == [img |-> "null", theme |-> "null"]
NoError == "null"

AppCells(a) ==
    <<a.appState, a.theme, a.uploadedImage, a.generatedImage,
      a.errorMessage, a.tickActive, a.targetChristmas, a.dateId>>

\* which of the two <Clock> elements the App renders
Site(a) ==
    IF a.appState # "COMPLETE" THEN "small"
    ELSE IF a.generatedImage # NoResult THEN "large"
    ELSE "none"

\* const xmas = new Date(currentYear, 11, 25); if (now > xmas) next year
NextChristmas(a, now) ==
    IF ~LessEq(now, a.xmas) THEN Instant(a.xmas.d + a.yearDays, a.xmas.ms)
    ELSE a.xmas

\* const handleTick = () => {...}: a new function on every render
FreshHandleTick(a) == [fn |-> "handleTick", id |-> 1 - a.fnId]

\* App renders: a fresh handleTick, and the Clock of the current site
\* re-rendered, or the other site's Clock mounted in place of it
RenderApp(c, a) ==
    LET onTick == FreshHandleTick(a)
        a2 == [a EXCEPT !.fnId = onTick.id]
        want == Site(a)
        u == IF c.mounted THEN UnmountClock(c) ELSE c
    IN  [a |-> a2,
         c |-> IF c.mounted /\ c.variant = want
               THEN RerenderClock(c, a.targetChristmas, a.dateId, onTick, a.theme)
               ELSE IF want = "none" THEN u
               ELSE MountClock(u, want, a.targetChristmas, a.dateId, onTick,
                               a.theme)]

\* state updates of one handler are applied, and App renders if a cell changed
Commit(c, a) ==
    IF app.hosted /\ AppCells(a) # AppCells(app) THEN RenderApp(c, a)
    ELSE [a |-> a, c |-> c]

\* handleTick
handleTick(a, k) ==
    [a EXCEPT !.tickActive = TRUE,
              !.timeouts = @ \cup {k + TICK_ACTIVE_DELAY}]

\* reset
reset(a) ==
    [a EXCEPT !.appState = "IDLE", !.uploadedImage = NoImage,
              !.generatedImage = NoResult, !.errorMessage = NoError]

-----------------------------------------------------------------------------
(* Ghost records *)

NoTick == [last |-> -1, gap |-> 0]
NoneFired == [kind |-> "none", orphan |-> FALSE, gone |-> FALSE]

\* the Clock instance of the pre-state is no longer the one of c
Replaced(c) == clock.mounted /\ (~c.mounted \/ c.variant # clock.variant)

Idle == ~clock.effectPending /\ ~app.effectPending

AllDues ==
    {iv.due : iv \in clock.intervals} \cup {t.due : t \in clock.timeouts}
    \cup app.timeouts

-----------------------------------------------------------------------------
(* Steps shared by every host of the Clock *)

\* React runs the scheduled passive effects after the paint, children first:
\* the Clock's effect, then the App's mount effect, whose state update
\* renders the App again
FlushEffects ==
    /\ clock.effectPending \/ app.effectPending
    /\ LET c1 == IF clock.effectPending THEN RunEffect(clock, wall, clk)
                 ELSE clock
           a1 == IF app.effectPending
                 THEN [app EXCEPT !.effectPending = FALSE,
                                  !.targetChristmas = NextChristmas(app, wall),
                                  !.dateId = 1 - @]
                 ELSE app
           r == Commit(c1, a1)
       IN  /\ clock' = Paint(r.c)
           /\ app' = r.a
    /\ UNCHANGED <<wall, clk, jumps, fired, tick, clicks, fn>>

\* the setInterval callback
Tick ==
    /\ Idle
    /\ \E iv \in clock.intervals :
        /\ iv.due = clk
        /\ LET stale == iv.gone \/ iv.id # clock.timer
               c1 == [clock EXCEPT
                   !.timeLeft = IF iv.gone THEN @
                                ELSE TickTimeLeft(@, iv.targetDate, wall),
                   !.from = IF iv.gone THEN @
                            ELSE [set |-> TRUE, target |-> iv.targetDate],
                   !.pulse = IF iv.gone THEN @ ELSE TRUE,
                   !.intervals = Rearm(@, iv, clk),
                   !.timeouts = @ \cup
                                {[due |-> clk + PULSE_OFF_DELAY,
                                  orphan |-> stale, gone |-> iv.gone]}]
               a1 == IF iv.onTick.fn = "handleTick" THEN handleTick(app, clk)
                     ELSE app
               r == Commit(c1, a1)
           IN  /\ clock' = Paint(r.c)
               /\ app' = r.a
               /\ fired' = [kind |-> "interval", orphan |-> stale,
                            gone |-> iv.gone]
               /\ tick' = IF iv.onTick.fn = "none" THEN tick
                          ELSE [last |-> clk,
                                gap |-> IF tick.last >= 0 THEN clk - tick.last
                                        ELSE 0]
    /\ UNCHANGED <<wall, clk, jumps, clicks, fn>>

\* setTimeout(() => setPulse(false), 100)
PulseOff ==
    /\ Idle
    /\ \E t \in clock.timeouts :
        /\ t.due = clk
        /\ clock' = Paint([clock EXCEPT !.pulse = IF t.gone THEN @ ELSE FALSE,
                                        !.timeouts = @ \ {t}])
        /\ fired' = [kind |-> "pulseOff", orphan |-> t.orphan, gone |-> t.gone]
    /\ UNCHANGED <<wall, clk, jumps, tick, app, clicks, fn>>

\* time passes, up to the next timer that is due
Advance ==
    /\ Idle
    /\ \A due \in AllDues : due > clk
    /\ \E d \in {Step} \cup {due - clk : due \in AllDues} :
        /\ clk + d <= MaxTime
        /\ \A due \in AllDues : clk + d <= due
        /\ clk' = clk + d
        /\ wall' = PlusMs(wall, d)
    /\ UNCHANGED <<jumps, clock, fired, tick, app, clicks, fn>>

\* the system clock is set, or the tab was suspended
WallJump ==
    /\ Idle
    /\ jumps < MaxJumps
    /\ \E j \in JumpSizes : wall' = PlusMs(wall, j)
    /\ jumps' = jumps + 1
    /\ UNCHANGED <<clk, clock, fired, tick, app, clicks, fn>>

-----------------------------------------------------------------------------
(* App.tsx: handlers *)

\* an App handler has run: render, and the tick history ends with the
\* instance it belonged to
AppStep(a) ==
    LET r == Commit(clock, a) IN
    /\ clock' = Paint(r.c)
    /\ app' = r.a
    /\ tick' = IF Replaced(r.c) THEN NoTick ELSE tick

\* setTimeout(() => setTickActive(false), 50)
TickOff ==
    /\ Idle
    /\ \E due \in app.timeouts :
        /\ due = clk
        /\ AppStep([app EXCEPT !.tickActive = FALSE, !.timeouts = @ \ {due}])
    /\ UNCHANGED <<wall, clk, jumps, fired, clicks, fn>>

UserCan == app.hosted /\ Idle /\ clicks < MaxClicks

\* handleImageUpload: the file input exists while no image is held
ChooseFile ==
    /\ UserCan
    /\ app.appState # "COMPLETE" /\ app.uploadedImage = NoImage
    /\ \E img \in Images :
        /\ img \notin app.readers
        /\ AppStep([app EXCEPT !.readers = @ \cup {img}])
    /\ clicks' = clicks + 1
    /\ UNCHANGED <<wall, clk, jumps, fired, fn>>

\* reader.onloadend
LoadEnd ==
    /\ app.hosted /\ Idle
    /\ \E img \in app.readers :
        AppStep([app EXCEPT !.uploadedImage = img, !.appState = "IDLE",
                            !.errorMessage = NoError, !.readers = @ \ {img}])
    /\ UNCHANGED <<wall, clk, jumps, fired, clicks, fn>>

\* handleGenerate up to the await; the button is in the setup view and is
\* disabled without an image and while PROCESSING
Generate ==
    /\ UserCan
    /\ app.appState \notin {"COMPLETE", "PROCESSING"}
    /\ app.uploadedImage # NoImage
    /\ AppStep([app EXCEPT !.appState = "PROCESSING", !.errorMessage = NoError,
                           !.requests = Append(@, [img |-> app.uploadedImage,
                                                   theme |-> app.theme])])
    /\ clicks' = clicks + 1
    /\ UNCHANGED <<wall, clk, jumps, fired, fn>>

\* handleGenerate after the await: the request settles
Settle ==
    /\ app.hosted /\ Idle
    /\ \E i \in DOMAIN app.requests : \E ok \in BOOLEAN :
        LET req == app.requests[i]
            rest == [j \in 1..(Len(app.requests) - 1) |->
                        IF j < i THEN app.requests[j] ELSE app.requests[j + 1]]
        IN  IF ok
            THEN AppStep([app EXCEPT !.generatedImage = req,
                                     !.appState = "COMPLETE",
                                     !.requests = rest])
            ELSE AppStep([app EXCEPT !.errorMessage = "error",
                                     !.appState = "ERROR",
                                     !.requests = rest])
    /\ UNCHANGED <<wall, clk, jumps, fired, clicks, fn>>

\* reset, from the X button of the preview or "New Protocol" of the result
Reset ==
    /\ UserCan
    /\ \/ app.appState # "COMPLETE" /\ app.uploadedImage # NoImage
       \/ app.appState = "COMPLETE" /\ app.generatedImage # NoResult
    /\ AppStep(reset(app))
    /\ clicks' = clicks + 1
    /\ UNCHANGED <<wall, clk, jumps, fired, fn>>

\* toggleTheme
ToggleTheme ==
    /\ UserCan
    /\ LET a1 == [app EXCEPT !.theme = IF @ = "24" THEN "ELF" ELSE "24"] IN
       AppStep(IF app.appState = "COMPLETE" THEN reset(a1) ELSE a1)
    /\ clicks' = clicks + 1
    /\ UNCHANGED <<wall, clk, jumps, fired, fn>>

-----------------------------------------------------------------------------
(* A bare Clock: the parent is any component, which may render the Clock   *)
(* with any props, remove it and mount it again                            *)

Start == Instant(0, 0)

\* 5 s ago, in 1.5 s, in 90061 s
ParentTargets ==
    {Instant(-1, MS_PER_DAY - 5000), Instant(0, 1500), Instant(1, 3661000)}

ParentCallbacks(c) ==
    {c.onTick, NoCallback,
     [fn |-> "probe", id |-> IF c.onTick.fn = "probe" THEN 1 - c.onTick.id ELSE 0]}

ParentCan == ~app.hosted /\ Idle /\ clicks < MaxParentSteps

\* the parent renders: the same Date object or a new one, the same callback,
\* another one or none, any theme
ParentRender ==
    /\ ParentCan /\ clock.mounted
    /\ \E t \in ParentTargets \cup {clock.targetDate} :
       \E newDate \in BOOLEAN :
       \E cb \in ParentCallbacks(clock) :
       \E th \in Themes :
        /\ newDate \/ t = clock.targetDate
        /\ clock' = Paint(RerenderClock(clock, t,
                              IF newDate THEN 1 - clock.dateId ELSE clock.dateId,
                              cb, th))
    /\ clicks' = clicks + 1
    /\ UNCHANGED <<wall, clk, jumps, fired, tick, app, fn>>

ParentUnmount ==
    /\ ParentCan /\ clock.mounted
    /\ clock' = Paint(UnmountClock(clock))
    /\ tick' = NoTick
    /\ clicks' = clicks + 1
    /\ UNCHANGED <<wall, clk, jumps, fired, app, fn>>

ParentMount ==
    /\ ParentCan /\ ~clock.mounted
    /\ \E t \in ParentTargets : \E cb \in ParentCallbacks(clock) :
       \E th \in Themes :
        clock' = Paint(MountClock(clock, "small", t, 0, cb, th))
    /\ clicks' = clicks + 1
    /\ UNCHANGED <<wall, clk, jumps, fired, tick, app, fn>>

-----------------------------------------------------------------------------
(* The pure functions on their own *)

FnTargets ==
    {Instant(d, ms) :
        d \in {0, 1, 2, 99, 100, 365},
        ms \in {0, 1, 999, 1000, 59999, 60000, 3599999, 3600000, 3661000,
                86399999}}

FnNows == {Instant(0, 0), Instant(0, 1), Instant(0, 3661000), Instant(1, 0),
           Instant(100, 500)}

JsValues == {JsInt(n) : n \in -2..12} \cup {NaN} \cup {JsHalf(n) : n \in 0..9}

FnIdle ==
    [step |-> "off", T |-> Start, N |-> Start, out |-> ZeroTime,
     value |-> 0, group |-> renderGroup(0), digit |-> JsInt(0), segs |-> <<>>]

FnCalc ==
    /\ fn.step = "in"
    /\ fn' = [fn EXCEPT !.step = "calc", !.out = calculateTimeLeft(fn.T, fn.N)]
    /\ UNCHANGED <<wall, clk, jumps, clock, fired, tick, app, clicks>>

FnRenderGroup ==
    /\ fn.step = "calc"
    /\ \E f \in Fields :
        fn' = [fn EXCEPT !.step = "group", !.value = fn.out[f],
                         !.group = renderGroup(fn.out[f])]
    /\ UNCHANGED <<wall, clk, jumps, clock, fired, tick, app, clicks>>

FnDigit ==
    /\ fn.step \in {"calc", "group"}
    /\ \E v \in (IF fn.step = "group" THEN {fn.group.d1, fn.group.d2}
                 ELSE JsValues) :
        fn' = [fn EXCEPT !.step = "segs", !.digit = v,
                         !.segs = activeSegments(v)]
    /\ UNCHANGED <<wall, clk, jumps, clock, fired, tick, app, clicks>>

-----------------------------------------------------------------------------
(* services/geminiService.ts: generateCharacterImage                       *)
(* A string is the sequence of its characters, so that includes,           *)
(* toLowerCase, substring and concatenation are computed on the text.      *)

SAFETY_MESSAGE ==
    <<"S", "e", "c", "u", "r", "i", "t", "y", " ", "P", "r", "o", "t", "o",
      "c", "o", "l", " ", "E", "n", "g", "a", "g", "e", "d", ":", " ", "I",
      "m", "a", "g", "e", " ", "c", "o", "n", "t", "e", "n", "t", " ", "f",
      "l", "a", "g", "g", "e", "d", " ", "b", "y", " ", "s", "a", "f", "e",
      "t", "y", " ", "f", "i", "l", "t", "e", "r", "s", ".", " ", "P", "l",
      "e", "a", "s", "e", " ", "t", "r", "y", " ", "a", " ", "d", "i", "f",
      "f", "e", "r", "e", "n", "t", " ", "p", "h", "o", "t", "o", ".">>

OTHER_MESSAGE ==
    <<"P", "r", "o", "t", "o", "c", "o", "l", " ", "F", "a", "i", "l", "e",
      "d", ":", " ", "M", "o", "d", "e", "l", " ", "p", "r", "o", "c", "e",
      "s", "s", "i", "n", "g", " ", "e", "r", "r", "o", "r", ".", " ", "T",
      "r", "y", " ", "r", "e", "d", "u", "c", "i", "n", "g", " ", "i", "m",
      "a", "g", "e", " ", "c", "o", "m", "p", "l", "e", "x", "i", "t", "y",
      ".">>

REFUSED_MESSAGE ==
    <<"R", "e", "q", "u", "e", "s", "t", " ", "D", "e", "n", "i", "e", "d",
      ":", " ", "T", "h", "e", " ", "m", "o", "d", "e", "l", " ", "r", "e",
      "f", "u", "s", "e", "d", " ", "t", "h", "e", " ", "p", "r", "o", "m",
      "p", "t", ".", " ", "T", "r", "y", " ", "a", " ", "c", "l", "e", "a",
      "r", "e", "r", " ", "f", "a", "c", "e", " ", "p", "h", "o", "t", "o",
      ".">>

MODEL_RESPONSE ==
    <<"M", "o", "d", "e", "l", " ", "R", "e", "s", "p", "o", "n", "s", "e",
      ":", " ">>

ELLIPSIS ==
    <<".", ".", ".">>

INCOMPLETE_MESSAGE ==
    <<"T", "r", "a", "n", "s", "m", "i", "s", "s", "i", "o", "n", " ", "I",
      "n", "c", "o", "m", "p", "l", "e", "t", "e", ":", " ", "N", "o", " ",
      "i", "m", "a", "g", "e", " ", "d", "a", "t", "a", " ", "r", "e", "c",
      "e", "i", "v", "e", "d", " ", "f", "r", "o", "m", " ", "s", "a", "t",
      "e", "l", "l", "i", "t", "e", ".">>

ACCESS_DENIED ==
    <<"A", "c", "c", "e", "s", "s", " ", "D", "e", "n", "i", "e", "d", ":",
      " ", "A", "P", "I", " ", "K", "e", "y", " ", "i", "n", "v", "a", "l",
      "i", "d", " ", "o", "r", " ", "e", "x", "p", "i", "r", "e", "d", ".">>

NETWORK_CONGESTION ==
    <<"N", "e", "t", "w", "o", "r", "k", " ", "C", "o", "n", "g", "e", "s",
      "t", "i", "o", "n", ":", " ", "C", "T", "U", " ", "S", "e", "r", "v",
      "e", "r", "s", " ", "o", "v", "e", "r", "l", "o", "a", "d", "e", "d",
      ".", " ", "P", "l", "e", "a", "s", "e", " ", "r", "e", "t", "r", "y",
      ".">>

DATA_CORRUPTION ==
    <<"D", "a", "t", "a", " ", "C", "o", "r", "r", "u", "p", "t", "i", "o",
      "n", ":", " ", "I", "n", "v", "a", "l", "i", "d", " ", "i", "m", "a",
      "g", "e", " ", "f", "o", "r", "m", "a", "t", " ", "o", "r", " ", "p",
      "r", "o", "m", "p", "t", " ", "r", "e", "j", "e", "c", "t", "e", "d",
      ".">>

SYSTEM_FAILURE ==
    <<"S", "y", "s", "t", "e", "m", " ", "F", "a", "i", "l", "u", "r", "e",
      ":", " ", "U", "n", "k", "n", "o", "w", "n", " ", "e", "r", "r", "o",
      "r", " ", "o", "c", "c", "u", "r", "r", "e", "d", " ", "d", "u", "r",
      "i", "n", "g", " ", "g", "e", "n", "e", "r", "a", "t", "i", "o", "n",
      ".">>

DATA_URL_PREFIX ==
    <<"d", "a", "t", "a", ":", "i", "m", "a", "g", "e", "/", "p", "n", "g",
      ";", "b", "a", "s", "e", "6", "4", ",">>

\* Object.prototype.toString of a plain object
OBJECT_OBJECT ==
    <<"[", "o", "b", "j", "e", "c", "t", " ", "O", "b", "j", "e", "c", "t",
      "]">>

\* Error.prototype.name
ERROR_NAME ==
    <<"E", "r", "r", "o", "r">>

\* the name of the errors of @google/genai
API_ERROR_NAME ==
    <<"A", "p", "i", "E", "r", "r", "o", "r">>

\* Error.prototype.toString joins name and message
NAME_SEPARATOR ==
    <<":", " ">>

S403 ==
    <<"4", "0", "3">>

S503 ==
    <<"5", "0", "3">>

S400 ==
    <<"4", "0", "0">>

SORRY ==
    <<"s", "o", "r", "r", "y">>

CANNOT ==
    <<"c", "a", "n", "n", "o", "t">>

SUBSTRING_END == 100

UPPER_CASE ==
    <<"A", "B", "C", "D", "E", "F", "G", "H", "I", "J", "K", "L", "M", "N",
      "O", "P", "Q", "R", "S", "T", "U", "V", "W", "X", "Y", "Z">>

LOWER_CASE ==
    <<"a", "b", "c", "d", "e", "f", "g", "h", "i", "j", "k", "l", "m", "n",
      "o", "p", "q", "r", "s", "t", "u", "v", "w", "x", "y", "z">>

\* String.prototype.includes
Includes(s, sub) ==
    \E i \in 0..(Len(s) - Len(sub)) : SubSeq(s, i + 1, i + Len(sub)) = sub

\* String.prototype.toLowerCase
ToLowerCase(s) ==
    [i \in 1..Len(s) |->
        IF \E k \in 1..26 : UPPER_CASE[k] = s[i]
        THEN LOWER_CASE[CHOOSE k \in 1..26 : UPPER_CASE[k] = s[i]]
        ELSE s[i]]

\* String.prototype.substring(0, end)
Substring(s, end) == SubSeq(s, 1, IF Len(s) < end THEN Len(s) ELSE end)

\* new Error(message)
NewError(message) ==
    [kind |-> "Error", name |-> ERROR_NAME, message |-> message]

\* error.toString(): Error.prototype.toString of an Error, the string itself,
\* Number.prototype.toString, Object.prototype.toString
ErrorToString(error) ==
    CASE error.kind = "Error" ->
            IF error.name = <<>> THEN error.message
            ELSE IF error.message = <<>> THEN error.name
            ELSE error.name \o NAME_SEPARATOR \o error.message
      [] error.kind = "string" -> error.s
      [] error.kind = "number" -> NumberToString(error.n)
      [] error.kind = "object" -> OBJECT_OBJECT

\* response.candidates?.[0]
FirstCandidate(response) ==
    IF Len(response.candidates) = 0 THEN [present |-> FALSE]
    ELSE [present |-> TRUE, c |-> response.candidates[1]]

\* candidate?.content?.parts || []
PartsOf(candidate) == IF candidate.present THEN candidate.c.parts ELSE <<>>

\* part.inlineData is an object, so it is truthy when it is there
HasInlineData(part) == part.kind = "inlineData"

\* p.text is truthy: a text that is not empty
HasText(part) == part.kind = "text" /\ part.text # <<>>

\* the for loop: the index of the first part with inlineData, 0 if none
FirstInlineData(parts) ==
    IF \E i \in 1..Len(parts) : HasInlineData(parts[i])
    THEN CHOOSE i \in 1..Len(parts) :
            /\ HasInlineData(parts[i])
            /\ \A j \in 1..(i - 1) : ~HasInlineData(parts[j])
    ELSE 0

\* parts.find(p => p.text): the index of the first part with text, 0 if none
FirstText(parts) ==
    IF \E i \in 1..Len(parts) : HasText(parts[i])
    THEN CHOOSE i \in 1..Len(parts) :
            /\ HasText(parts[i])
            /\ \A j \in 1..(i - 1) : ~HasText(parts[j])
    ELSE 0

Return(value) == [kind |-> "return", value |-> value]
Throw(error) == [kind |-> "throw", error |-> error]

\* mutant: the image is looked for before the finishReason is
ResponseChecks_imageFirst(response) ==
    LET candidate == FirstCandidate(response)
        parts == PartsOf(candidate)
        img == FirstInlineData(parts)
    IN  IF img # 0 THEN Return(DATA_URL_PREFIX \o parts[img].data)
        ELSE Throw(NewError(INCOMPLETE_MESSAGE))

\* the checks of the response, from the candidate to the fallback throw
ResponseChecks(response) ==
    LET candidate == FirstCandidate(response)
        parts == PartsOf(candidate)
        img == FirstInlineData(parts)
        txt == FirstText(parts)
        textOutput == parts[txt].text
    IN  IF candidate.present /\ candidate.c.finishReason = "SAFETY"
        THEN Throw(NewError(SAFETY_MESSAGE))
        ELSE IF candidate.present /\ candidate.c.finishReason = "OTHER"
        THEN Throw(NewError(OTHER_MESSAGE))
        ELSE IF img # 0
        THEN Return(DATA_URL_PREFIX \o parts[img].data)
        ELSE IF txt # 0
        THEN IF \/ Includes(ToLowerCase(textOutput), SORRY)
                \/ Includes(ToLowerCase(textOutput), CANNOT)
             THEN Throw(NewError(REFUSED_MESSAGE))
             ELSE Throw(NewError(MODEL_RESPONSE
                                 \o Substring(textOutput, SUBSTRING_END)
                                 \o ELLIPSIS))
        ELSE Throw(NewError(INCOMPLETE_MESSAGE))

Rejected(error) == [status |-> "rejected", error |-> error]
Resolved(value) == [status |-> "resolved", value |-> value]
Pending == [status |-> "pending"]

\* mutant: 503 is looked for before 403
Catch_503First(error) ==
    LET msg == ErrorToString(error)
    IN  IF Includes(msg, S503) THEN Rejected(NewError(NETWORK_CONGESTION))
        ELSE IF Includes(msg, S403) THEN Rejected(NewError(ACCESS_DENIED))
        ELSE IF Includes(msg, S400) THEN Rejected(NewError(DATA_CORRUPTION))
        ELSE IF error.kind = "Error" THEN Rejected(error)
        ELSE Rejected(NewError(SYSTEM_FAILURE))

\* the catch block: whatever was thrown in the try block comes here, the
\* errors of the response checks as well as those of the API call
Catch(error) ==
    LET msg == ErrorToString(error)
    IN  IF Includes(msg, S403) THEN Rejected(NewError(ACCESS_DENIED))
        ELSE IF Includes(msg, S503) THEN Rejected(NewError(NETWORK_CONGESTION))
        ELSE IF Includes(msg, S400) THEN Rejected(NewError(DATA_CORRUPTION))
        ELSE IF error.kind = "Error" THEN Rejected(error)
        ELSE Rejected(NewError(SYSTEM_FAILURE))

-----------------------------------------------------------------------------
(* What the API call can come back with *)

Pad(k) == [i \in 1..k |-> "x"]

\* lengths of the text before the part of interest: none, and around the
\* end of the substring
PadLengths == {0, SUBSTRING_END - 2, SUBSTRING_END}

PlainTexts ==
    {<<"h", "i">>, <<"S", "o", "r", "r", "y">>, <<"I", " ">> \o CANNOT,
     SORRY \o <<" ">> \o S403, S503 \o <<" ">> \o S403,
     S400 \o <<" ">> \o S503}

ModelTexts ==
    PlainTexts \cup {Pad(k) \o s : k \in PadLengths, s \in {S403, S503, S400}}

ImageData == {<<"Q", "U", "J", "D">>, <<"i", "V", "B", "O">>}

TextPart(t) == [kind |-> "text", text |-> t]
InlineDataPart(d) == [kind |-> "inlineData", data |-> d]

PartLists ==
    {<<>>}
    \cup {<<TextPart(t)>> : t \in ModelTexts \cup {<<>>}}
    \cup {<<InlineDataPart(d)>> : d \in ImageData}
    \cup {<<TextPart(t), InlineDataPart(d)>> :
            t \in {<<>>, S403, SORRY}, d \in ImageData}
    \cup {<<TextPart(S400), InlineDataPart(d), InlineDataPart(e)>> :
            d \in ImageData, e \in ImageData}
    \cup {<<TextPart(<<>>), TextPart(t)>> : t \in {<<"h", "i">>, S400}}

\* "undefined": the candidate has no finishReason
FinishReasons == {"STOP", "SAFETY", "OTHER", "undefined"}

Candidates == {[finishReason |-> r, parts |-> p] :
                 r \in FinishReasons, p \in PartLists}

Responses ==
    {[candidates |-> <<>>]}
    \cup {[candidates |-> <<c>>] : c \in Candidates}
    \cup {[candidates |-> <<c, d>>] :
            c \in {[finishReason |-> r, parts |-> <<TextPart(S503)>>] :
                     r \in {"STOP", "SAFETY"}},
            d \in {[finishReason |-> "STOP", parts |-> <<InlineDataPart(i)>>] :
                     i \in ImageData}}

ErrorMessages ==
    PlainTexts \cup {<<>>, S403, S503, S400, Pad(SUBSTRING_END) \o S403}

\* what the try block can throw before the response is there: an Error (the
\* errors of the client library and of fetch are), or any other value that
\* has a string form
ThrownValues ==
    {[kind |-> "Error", name |-> n, message |-> m] :
        n \in {ERROR_NAME, API_ERROR_NAME}, m \in ErrorMessages}
    \cup {[kind |-> "string", s |-> s] : s \in {<<"h", "i">>, S403, S400}}
    \cup {[kind |-> "number", n |-> n] : n \in {7, 400, 403, 503, 4030, 1503}}
    \cup {[kind |-> "object"]}

Calls ==
    {[kind |-> "fails", error |-> e] : e \in ThrownValues}
    \cup {[kind |-> "response", response |-> r] : r \in Responses}

NothingThrown == [kind |-> "none"]

\* await ai.models.generateContent(...) rejects: control goes to the catch
ApiRejects ==
    /\ fn.step = "called" /\ fn.call.kind = "fails"
    /\ fn' = [fn EXCEPT !.step = "caught", !.thrown = fn.call.error,
                        !.own = FALSE]
    /\ UNCHANGED <<wall, clk, jumps, clock, fired, tick, app, clicks>>

\* await ai.models.generateContent(...) resolves: the response is checked,
\* and the function returns or throws into its own catch
ApiResolves ==
    /\ fn.step = "called" /\ fn.call.kind = "response"
    /\ LET r == ResponseChecks(fn.call.response) IN
       fn' = IF r.kind = "return"
             THEN [fn EXCEPT !.step = "resolved", !.outcome = Resolved(r.value)]
             ELSE [fn EXCEPT !.step = "caught", !.thrown = r.error,
                             !.own = TRUE]
    /\ UNCHANGED <<wall, clk, jumps, clock, fired, tick, app, clicks>>

\* the catch block
CatchBlock ==
    /\ fn.step = "caught"
    /\ fn' = [fn EXCEPT !.step = "rejected", !.outcome = Catch(fn.thrown)]
    /\ UNCHANGED <<wall, clk, jumps, clock, fired, tick, app, clicks>>

-----------------------------------------------------------------------------
(* Specifications *)

Calendars ==
    {[xmas |-> Instant(-3, 500), yearDays |-> 365],
     [xmas |-> Instant(0, 1500), yearDays |-> 365]}

AppStart(hosted, cal) ==
    [hosted |-> hosted, appState |-> "IDLE", theme |-> "24",
     uploadedImage |-> NoImage, generatedImage |-> NoResult,
     errorMessage |-> NoError, tickActive |-> FALSE,
     targetChristmas |-> Start, dateId |-> 0, fnId |-> 0,
     effectPending |-> hosted, timeouts |-> {}, readers |-> {},
     requests |-> <<>>, xmas |-> cal.xmas, yearDays |-> cal.yearDays]

Quiet ==
    /\ wall = Start /\ clk = 0 /\ jumps = 0 /\ clicks = 0
    /\ fired = NoneFired /\ tick = NoTick

\* App after its first render: useState(new Date()) is the target, the small
\* Clock is mounted, both effects are scheduled
Init ==
    /\ Quiet
    /\ \E cal \in Calendars : app = AppStart(TRUE, cal)
    /\ clock = Paint(MountClock(Unmounted, "small", Start, 0,
                                [fn |-> "handleTick", id |-> 0], "24"))
    /\ fn = FnIdle

Next ==
    \/ FlushEffects \/ Tick \/ PulseOff \/ Advance \/ WallJump
    \/ TickOff \/ ChooseFile \/ LoadEnd \/ Generate \/ Settle \/ Reset
    \/ ToggleTheme

Spec == Init /\ [][Next]_vars

\* a Clock after its first render under any parent
ClockInit ==
    /\ Quiet
    /\ app = AppStart(FALSE, [xmas |-> Start, yearDays |-> 365])
    /\ \E t \in ParentTargets : \E fnName \in {"probe", "none"} :
        clock = Paint(MountClock(Unmounted, "small", t, 0,
                                 [fn |-> fnName, id |-> 0], "24"))
    /\ fn = FnIdle

ClockNext ==
    \/ FlushEffects \/ Tick \/ PulseOff \/ Advance \/ WallJump
    \/ ParentRender \/ ParentUnmount \/ ParentMount

ClockSpec == ClockInit /\ [][ClockNext]_vars

FnInit ==
    /\ Quiet
    /\ app = AppStart(FALSE, [xmas |-> Start, yearDays |-> 365])
    /\ clock = Unmounted
    /\ \E T \in FnTargets : \E N \in FnNows :
        fn = [FnIdle EXCEPT !.step = "in", !.T = T, !.N = N]

FnNext == FnCalc \/ FnRenderGroup \/ FnDigit

FnSpec == FnInit /\ [][FnNext]_vars

\* generateCharacterImage was called and waits for the API
GenInit ==
    /\ Quiet
    /\ app = AppStart(FALSE, [xmas |-> Start, yearDays |-> 365])
    /\ clock = Unmounted
    /\ \E c \in Calls :
        fn = [step |-> "called", call |-> c, thrown |-> NothingThrown,
              own |-> FALSE, outcome |-> Pending]

GenNext == ApiRejects \/ ApiResolves \/ CatchBlock

GenSpec == GenInit /\ [][GenNext]_vars

-----------------------------------------------------------------------------
(* Properties *)

LiveIntervals == Cardinality(clock.intervals)

\* C1: at most one interval timer is live in every state: exactly one once
\* the effect of a mounted Clock has run, none after the unmount, whatever
\* the parent rendered, removed and mounted again
C1_OneTimer ==
    /\ LiveIntervals <= 1
    /\ (clock.mounted /\ ~clock.effectPending) => LiveIntervals = 1
    /\ ~clock.mounted => LiveIntervals = 0

\* a Clock that was removed after a tick and mounted again ticks on one timer
C1_Witness ==
    /\ clock.mounted /\ ~clock.effectPending /\ LiveIntervals = 1
    /\ \E t \in clock.timeouts : t.gone
    /\ clicks >= 2

\* C2: no timer callback of a cycle that was torn down (effect cleanup or
\* unmount) runs after the teardown
C2_NoCallbackAfterTeardown ==
    fired.kind # "none" => ~fired.orphan /\ ~fired.gone

\* C3: while the Clock stays mounted, consecutive onTick invocations are
\* one tick period apart
C3_TickEverySecond ==
    tick.gap # 0 => tick.gap = TICK_PERIOD

Calculated == fn.step \in {"calc", "group", "segs"}

\* C4: a target that is not after the current instant gives four zeros, and no
\* field is negative for any target
C4_PastIsZero ==
    Calculated =>
        /\ LessEq(fn.T, fn.N) => fn.out = ZeroTime
        /\ \A f \in Fields : fn.out[f] >= 0

C4_Witness ==
    Calculated /\ LessEq(fn.T, fn.N) /\ fn.T # fn.N /\ fn.out = ZeroTime

\* the duration the four fields stand for, in two limbs
Reconstructed(t) ==
    Norm(t.days, ((t.hours * 60 + t.minutes) * 60 + t.seconds) * MS_PER_SECOND)

\* C5: for T > N, with D = T - N: days = floor(D / 86400000), hours < 24,
\* minutes < 60, seconds < 60, and the duration R rebuilt from the fields has
\* R <= D and D - R < 1000; D = 90061000 gives {1, 1, 1, 1}
C5_Decomposition ==
    (Calculated /\ ~LessEq(fn.T, fn.N)) =>
        LET D == Minus(fn.T, fn.N)
            R == Reconstructed(fn.out)
        IN  /\ fn.out.days = D.d
            /\ fn.out.hours \in 0..23
            /\ fn.out.minutes \in 0..59
            /\ fn.out.seconds \in 0..59
            /\ LessEq(R, D)
            /\ Minus(D, R).d = 0 /\ Minus(D, R).ms < MS_PER_SECOND
            /\ (D = Instant(1, 3661000)) =>
                   fn.out = [days |-> 1, hours |-> 1, minutes |-> 1,
                             seconds |-> 1]

C5_Witness ==
    /\ Calculated
    /\ Minus(fn.T, fn.N) = Instant(1, 3661000)
    /\ fn.out = [days |-> 1, hours |-> 1, minutes |-> 1, seconds |-> 1]

\* the pulse is up only with its pulse-off timeout pending, which is due in
\* less than a tick period and before the next tick
PulseWindow ==
    clock.pulse =>
        \E t \in clock.timeouts :
            /\ ~t.gone
            /\ t.due - clk < TICK_PERIOD
            /\ \A iv \in clock.intervals : t.due < iv.due

\* C6: every tick raises the pulse, the pulse is down again when the next
\* tick fires, and it is up for less than a tick period
C6_PulseWindow ==
    /\ []PulseWindow
    /\ [][Tick => (~clock.pulse /\ clock'.pulse)]_vars

\* a second tick found the pulse down
C6_Witness ==
    /\ clock.mounted /\ clock.pulse /\ fired.kind = "interval"
    /\ clk >= 2 * TICK_PERIOD

Past == clock.mounted /\ LessEq(clock.targetDate, wall)

\* C7: with the target in the past the timer keeps running, the effect and
\* every tick set timeLeft to zero, every tick raises the pulse and invokes
\* onTick, and timeLeft stays zero while the target stays in the past
C7_PastTarget ==
    /\ []((Past /\ ~clock.effectPending) =>
            \E iv \in clock.intervals :
                ~iv.gone /\ iv.due <= clk + TICK_PERIOD)
    /\ [][(Tick /\ Past') =>
            /\ clock'.timeLeft = ZeroTime
            /\ clock'.pulse
            /\ clock.onTick.fn # "none" => tick'.last = clk]_vars
    /\ [][(FlushEffects /\ Past') => clock'.timeLeft = ZeroTime]_vars
    /\ [][(Past /\ Past' /\ clock.timeLeft = ZeroTime) =>
            clock'.timeLeft = ZeroTime]_vars

\* the second tick at zero
C7_Witness ==
    /\ Past /\ clock.targetDate = Instant(-1, MS_PER_DAY - 5000)
    /\ fired.kind = "interval" /\ clock.pulse /\ tick.gap > 0
    /\ clock.timeLeft = ZeroTime

\* C8: every field on display is painted as the two decimal digits of its
\* value: 10 * d1 + d2 = value
C8_TwoDigits ==
    clock.mounted =>
        \A f \in Fields :
            LET g == clock.digits[f] IN
            /\ g.d1.kind = "int" /\ g.d2.kind = "int"
            /\ 10 * g.d1.n + g.d2.n = clock.timeLeft[f]

SegmentSet(segs) == {segs[i] : i \in DOMAIN segs}

\* C9: the integers 0..9 map to a non-empty set of segments a..g, every other
\* value (other integers, NaN, non-integers) to the empty set
C9_SegmentsTotal ==
    fn.step = "segs" =>
        IF fn.digit.kind = "int" /\ fn.digit.n \in 0..9
        THEN /\ SegmentSet(fn.segs) # {}
             /\ SegmentSet(fn.segs) \subseteq SEGMENT_KEYS
        ELSE SegmentSet(fn.segs) = {}

C9_Witness == fn.step = "segs" /\ fn.digit = NaN /\ fn.segs = <<>>

\* timeLeft t is the decomposition of (target - now), clamped at zero: the
\* fields are in range and the duration they stand for is at most the
\* difference and less than a second below it
IsDurationOf(t, target, now) ==
    LET D == Minus(target, now)
        R == Reconstructed(t)
    IN  IF NonPositive(D) THEN t = ZeroTime
        ELSE /\ t.days >= 0 /\ t.hours \in 0..23
             /\ t.minutes \in 0..59 /\ t.seconds \in 0..59
             /\ LessEq(R, D)
             /\ Minus(D, R).d = 0 /\ Minus(D, R).ms < MS_PER_SECOND

\* C11: right after every tick, timeLeft is the decomposition of (target -
\* wall clock at the tick), whatever timeLeft was before, however long the
\* tick was put off and however the wall clock was set in between
C11_FromScratch ==
    [][Tick => IsDurationOf(clock'.timeLeft, clock'.targetDate, wall')]_vars

\* a tick after the wall clock was set, with time left on the clock
C11_Witness ==
    /\ clock.mounted /\ fired.kind = "interval" /\ clock.pulse
    /\ jumps >= 1 /\ wall # PlusMs(Start, clk)
    /\ clock.timeLeft # ZeroTime
    /\ IsDurationOf(clock.timeLeft, clock.targetDate, wall)

\* C12: whenever the App is COMPLETE, the result it holds came from the
\* request made for the photo it now holds and the theme now selected
C12_ResultMatchesInputs ==
    app.appState = "COMPLETE" =>
        app.generatedImage = [img |-> app.uploadedImage, theme |-> app.theme]

\* C13: an error thrown by the response checks reaches the caller with the
\* message it was thrown with
C13_OwnErrorUnchanged ==
    (fn.step = "rejected" /\ fn.own) =>
        fn.outcome.error.message = fn.thrown.message

Settled == fn.step \in {"resolved", "rejected"}

\* C15: the call resolves only on a response whose first candidate has a
\* finishReason other than SAFETY and OTHER and a part with inlineData, and
\* then with the data URL of the first such part; on a response with
\* finishReason SAFETY or OTHER, with no candidate or with no inlineData
\* part it rejects
C15_ResolvesOnlyWithImage ==
    (Settled /\ fn.call.kind = "response") =>
        LET cs == fn.call.response.candidates
            parts == cs[1].parts
            Usable == /\ Len(cs) > 0
                      /\ cs[1].finishReason \notin {"SAFETY", "OTHER"}
                      /\ \E i \in 1..Len(parts) : parts[i].kind = "inlineData"
        IN  /\ fn.outcome.status = "resolved" =>
                /\ Usable
                /\ \E i \in 1..Len(parts) :
                    /\ parts[i].kind = "inlineData"
                    /\ \A j \in 1..(i - 1) : parts[j].kind # "inlineData"
                    /\ fn.outcome.value = DATA_URL_PREFIX \o parts[i].data
            /\ ~Usable => fn.outcome.status = "rejected"

\* resolved with the first of two images, which comes after a text part
C15_Witness ==
    /\ fn.step = "resolved" /\ fn.call.kind = "response"
    /\ LET parts == fn.call.response.candidates[1].parts IN
        /\ Len(parts) = 3 /\ parts[1].kind = "text"
        /\ parts[2].kind = "inlineData" /\ parts[3].kind = "inlineData"
        /\ parts[2].data # parts[3].data
        /\ fn.outcome.value = DATA_URL_PREFIX \o parts[2].data

\* C16: at most one generateCharacterImage request is outstanding
C16_OneRequest == Len(app.requests) <= 1

\* C10: every render of a mounted Clock shows a timeLeft computed from the
\* target of that render
C10_ComputedOnActivation ==
    clock.mounted =>
        clock.from.set /\ clock.from.target = clock.targetDate

=============================================================================
